---- MODULE Spec2Model ----
(***************************************************************************)
(* Model of the pure helpers of the gcp-pulumi repository:                 *)
(*   _subst_template  components/warpstreamagents/warpstream_cluster.py    *)
(*   deep_merge       programs/otel-collector-gke/__main__.py              *)
(* Strings are sequences of one-character strings.  Python dicts live in a *)
(* heap of objects so that aliasing and in-place mutation are observable.  *)
(***************************************************************************)
EXTENDS Integers, Sequences, FiniteSets, TLC

VARIABLES
    pc,          \* position of the program
    text,        \* argument text of _subst_template
    mapping,     \* argument mapping of _subst_template
    rendered,    \* string returned by _subst_template
    repl_calls,  \* number of calls of repl made by re.sub
    raised,      \* the call ended with an exception
    heap,        \* the dict objects, by address
    arg_a,       \* argument a of deep_merge
    arg_b,       \* argument b of deep_merge
    merged,      \* value returned by deep_merge
    arg_c,       \* third tree of a chain of two merges
    inner,       \* result of the inner call of such a chain
    left,        \* deep_merge(deep_merge(a, b), c)
    right,       \* deep_merge(a, deep_merge(b, c))
    out_name,    \* Output cluster.name: unresolved, or its value
    out_endpoint,\* Output cluster.endpoint
    out_ca,      \* Output master_auth.cluster_ca_certificate
    out_cpcfg,   \* Output cluster.control_plane_endpoints_config
    render_args, \* the argument lists _render has been called with
    kubeconfig,  \* text returned by _render, as lines
    gen_kubeconfig, \* document of _generate_kubeconfig_string
    imported,    \* outcome of `import components`
    defaults,    \* the dict loaded from defaults.yaml
    defaults0,   \* the tree that dict held when it was loaded
    apps,        \* the apps processed by the loop, one record each
    gke_args,    \* the args given to GKECluster
    declared,    \* the resources declared by GKECluster.__init__, in order
    attrs,       \* the attributes assigned on self
    dct,         \* argument dct of _ensure_tls
    enabled,     \* argument enabled of _ensure_tls
    tls_out,     \* value returned by _ensure_tls
    ws_args,     \* the arguments meant for WarpstreamClusterArgs
    ws_field,    \* number of dataclass fields of the class checked so far
    seen_default,\* a checked field had a default
    ws_declared  \* the resources WarpstreamCluster has declared, in order

substVars == <<text, mapping, rendered, repl_calls>>

mergeVars == <<heap, arg_a, arg_b, merged>>

assocVars == <<arg_c, inner, left, right>>

\* a chain of merges has not been asked for
AssocIdle == arg_c = <<>> /\ inner = <<>> /\ left = <<>> /\ right = <<>>

kubeVars == <<out_name, out_endpoint, out_ca, out_cpcfg, render_args,
              kubeconfig, gen_kubeconfig, imported>>

\* no kubeconfig has been asked for
KubeIdle ==
    /\ out_name = <<>> /\ out_endpoint = <<>> /\ out_ca = <<>>
    /\ out_cpcfg = <<>> /\ render_args = <<>> /\ kubeconfig = <<>>
    /\ gen_kubeconfig = <<>> /\ imported = "no"

\* the variables of the specifications that follow the first one
otelVars == <<defaults, defaults0, apps>>

OtelIdle == defaults = <<>> /\ defaults0 = <<>> /\ apps = <<>>

gkeVars == <<gke_args, declared, attrs>>

GkeIdle == gke_args = <<>> /\ declared = <<>> /\ attrs = {}

tlsVars == <<dct, enabled, tls_out>>

TlsIdle == dct = <<>> /\ enabled = <<>> /\ tls_out = <<>>

wsVars == <<ws_args, ws_field, seen_default, ws_declared>>

WsIdle ==
    ws_args = <<>> /\ ws_field = 0 /\ seen_default = FALSE /\ ws_declared = <<>>

laterVars == <<kubeVars, otelVars, gkeVars, tlsVars, wsVars>>

LaterIdle == KubeIdle /\ OtelIdle /\ GkeIdle /\ TlsIdle /\ WsIdle

vars == <<pc, raised, substVars, mergeVars, assocVars, laterVars>>

(***************************************************************************)
(* Bounds of the input space.                                              *)
(***************************************************************************)
\* a template is made of at most MaxChunks chunks
MaxChunks == 3

\* a generated configuration tree has at most MaxEntries key-value pairs
MaxEntries == 3

\* in a chain of two merges the first tree has at most MaxChainEntries
\* key-value pairs, the second and the third one less
MaxChainEntries == 2

(***************************************************************************)
(* The pattern of _subst_template: dollar, open brace, an identifier       *)
(* (a letter or underscore, then letters, digits, underscores), close brace *)
(***************************************************************************)
\* mutation: the first character of a name may be a digit
IdStartWithDigit == {"A", "B", "a", "_", "1"}

\* [A-Za-z_] restricted to the letters of the model's alphabet
IdStart == {"A", "B", "a", "_"}

\* [A-Za-z0-9_] restricted to the model's alphabet
IdCont == IdStart \cup {"1"}

\* the greedy identifier-tail run starting at position i: first position after it
RECURSIVE IdRunEnd(_, _)
IdRunEnd(s, i) ==
    IF i <= Len(s) /\ s[i] \in IdCont THEN IdRunEnd(s, i + 1) ELSE i

\* anchored match attempt of the pattern at position i: the index of the
\* closing brace, or 0 when the pattern does not match there
MatchEnd(s, i) ==
    IF /\ i + 3 <= Len(s)
       /\ s[i] = "$"
       /\ s[i + 1] = "{"
       /\ s[i + 2] \in IdStart
    THEN LET e == IdRunEnd(s, i + 3)
         IN  IF e <= Len(s) /\ s[e] = "}" THEN e ELSE 0
    ELSE 0

\* mutation: mapping.get(m.group(1), "")
replDefaultEmpty(mp, group1, group0) ==
    [raised |-> FALSE,
     val    |-> IF group1 \in DOMAIN mp THEN mp[group1] ELSE <<>>]

\* mutation: mapping.get(m.group(0), m.group(0))
replLookupWholeMatch(mp, group1, group0) ==
    [raised |-> FALSE,
     val    |-> IF group0 \in DOMAIN mp THEN mp[group0] ELSE group0]

\* repl(m) = str(mapping.get(m.group(1), m.group(0)))
repl(mp, group1, group0) ==
    [raised |-> FALSE,
     val    |-> IF group1 \in DOMAIN mp THEN mp[group1] ELSE group0]

\* re.sub: leftmost non-overlapping matches, scanning resumes after a match
RECURSIVE SubFrom(_, _, _)
SubFrom(s, mp, i) ==
    IF i > Len(s) THEN [raised |-> FALSE, val |-> <<>>, calls |-> 0]
    ELSE LET e == MatchEnd(s, i)
         IN  IF e = 0
             THEN LET r == SubFrom(s, mp, i + 1)
                  IN  [r EXCEPT !.val = <<s[i]>> \o @]
             ELSE LET p == repl(mp, SubSeq(s, i + 2, e - 1), SubSeq(s, i, e))
                  IN  IF p.raised
                      THEN [raised |-> TRUE, val |-> <<>>, calls |-> 1]
                      ELSE LET r == SubFrom(s, mp, e + 1)
                           IN  [r EXCEPT !.val = p.val \o @,
                                         !.calls = @ + 1]

\* mutation: the output of the scan is scanned again
SubstRescan(s, mp) ==
    LET r1 == SubFrom(s, mp, 1)
        r2 == SubFrom(r1.val, mp, 1)
    IN  [r2 EXCEPT !.calls = @ + r1.calls]

_subst_template(s, mp) == SubFrom(s, mp, 1)

(***************************************************************************)
(* Inputs.                                                                 *)
(***************************************************************************)
Chunks ==
    { <<"$", "{", "A", "}">>,          \* ${A}
      <<"$", "{", "B", "}">>,          \* ${B}
      <<"$", "{", "a", "}">>,          \* ${a}
      <<"$", "{", "_", "1", "}">>,     \* ${_1}
      <<"$", "{", "1", "A", "}">>,     \* ${1A}
      <<"$", "{", "A", "-", "}">>,     \* ${A-}
      <<"$", "{">>,                    \* ${
      <<"$", "A">>,                    \* $A
      <<"}">>,
      <<"-">> }

RECURSIVE Templates(_)
Templates(n) ==
    IF n = 0 THEN { <<>> }
    ELSE LET T == Templates(n - 1)
         IN  T \cup { t \o c : t \in T, c \in Chunks }

\* key sets of the mappings: identifiers, and names that are no identifiers
KeySets ==
    { {}, { <<"A">> }, { <<"B">> }, { <<"A">>, <<"B">> },
      { <<"A">>, <<"1", "A">> },
      { <<"B">>, <<>> },
      { <<"A">>, <<"A", "-">> } }

MapValues ==
    { <<>>, <<"x">>, <<"$", "{", "A", "}">>, <<"$", "{", "B", "}">> }

Mappings == UNION { [S -> MapValues] : S \in KeySets }

\* the worked examples of the specification
ExampleRenders ==
    { << <<"$", "{", "A", "}", "-", "$", "{", "B", "}">>,
         (<<"A">> :> <<"x">>) @@ (<<"B">> :> <<"y">>) >>,
      << <<"$", "{", "A", "}", "$", "{", "A", "}">>,
         (<<"A">> :> <<"z">>) >> }

RenderInputs == (Templates(MaxChunks) \X Mappings) \cup ExampleRenders

(***************************************************************************)
(* Python values.  A dict value is a reference to an object of the heap;   *)
(* an object maps its keys to values.  Lists and scalars are never written *)
(* to by deep_merge and are kept as plain values.                          *)
(***************************************************************************)
NoneVal == [t |-> "none"]

IntVal(n) == [t |-> "int", n |-> n]

ListVal(q) == [t |-> "list", s |-> q]

DictRef(r) == [t |-> "dict", ref |-> r]

EmptyObj == [k \in {} |-> NoneVal]

\* isinstance(v, dict)
IsDict(v) == v.t = "dict"

\* truth value of v, as tested by `v or {}`
Truthy(h, v) ==
    CASE v.t = "none" -> FALSE
      [] v.t = "int"  -> v.n # 0
      [] v.t = "list" -> v.s # <<>>
      [] v.t = "dict" -> DOMAIN h[v.ref] # {}

\* obj.get(k)
Get(obj, k) == IF k \in DOMAIN obj THEN obj[k] ELSE NoneVal

\* obj[k] = v
SetItem(obj, k, v) ==
    [x \in (DOMAIN obj) \cup {k} |-> IF x = k THEN v ELSE obj[x]]

\* the keys of the model in a fixed order; a dict is iterated in this order
KeyOrder ==
    << "a", "b", "c", "d", "x",
       "name", "helm", "repo", "chart", "values",
       "certificate", "enableTLS", "secretName" >>

KeysOf(obj) == SelectSeq(KeyOrder, LAMBDA k : k \in DOMAIN obj)

(***************************************************************************)
(* deep_merge(a, b)                                                        *)
(***************************************************************************)
RECURSIVE deep_merge(_, _, _)
RECURSIVE MergeLoop(_, _, _, _, _)

\* mutation: the two values are never merged key by key
BothDictsNever(v, cur) == FALSE

\* mutation: isinstance(out.get(k), dict) alone
BothDictsBaseOnly(v, cur) == IsDict(cur)

\* isinstance(v, dict) and isinstance(out.get(k), dict)
BothDicts(v, cur) == IsDict(v) /\ IsDict(cur)

\* mutation: a list of b extends the list of a
OverrideExtendsList(v, cur) ==
    IF v.t = "list" /\ cur.t = "list" THEN ListVal(cur.s \o v.s) ELSE v

\* the value stored by `out[k] = v`
Override(v, cur) == v

\* the loop `for k, v in (b or {}).items()` from the i-th key ks[i] on;
\* out is the address of the local dict out, bref the address of b
MergeLoop(h, out, bref, ks, i) ==
    IF i > Len(ks) THEN [heap |-> h, ret |-> DictRef(out), raised |-> FALSE]
    ELSE LET k   == ks[i]
             v   == h[bref][k]
             cur == Get(h[out], k)
         IN  IF BothDicts(v, cur)
             THEN LET r == deep_merge(h, cur, v)
                  IN  IF r.raised THEN r
                      ELSE MergeLoop([r.heap EXCEPT ![out] = SetItem(@, k, r.ret)],
                                     out, bref, ks, i + 1)
             ELSE MergeLoop([h EXCEPT ![out] = SetItem(@, k, Override(v, cur))],
                            out, bref, ks, i + 1)

\* mutation: out = a or {}, without the copy
DictNoCopy(h, a) ==
    IF Truthy(h, a) /\ ~IsDict(a)
    THEN [heap |-> h, ret |-> NoneVal, raised |-> TRUE]
    ELSE IF Truthy(h, a)
         THEN [heap |-> h, ret |-> a, raised |-> FALSE]
         ELSE [heap |-> Append(h, EmptyObj), ret |-> DictRef(Len(h) + 1),
               raised |-> FALSE]

\* mutation: out = dict(a), which raises TypeError for None
DictCopyOfNone(h, a) ==
    IF ~IsDict(a)
    THEN [heap |-> h, ret |-> NoneVal, raised |-> TRUE]
    ELSE [heap |-> Append(h, h[a.ref]), ret |-> DictRef(Len(h) + 1),
          raised |-> FALSE]

\* out = dict(a or {}): a new object holding the items of a
\* (dict() of a true value that is no dict raises TypeError)
DictCopy(h, a) ==
    IF Truthy(h, a) /\ ~IsDict(a)
    THEN [heap |-> h, ret |-> NoneVal, raised |-> TRUE]
    ELSE LET obj == IF Truthy(h, a) THEN h[a.ref] ELSE EmptyObj
         IN  [heap |-> Append(h, obj), ret |-> DictRef(Len(h) + 1),
              raised |-> FALSE]

deep_merge(h, a, b) ==
    LET c == DictCopy(h, a)
    IN  IF c.raised THEN c
        ELSE IF ~Truthy(c.heap, b)
             THEN c                       \* {}.items() is empty
             ELSE IF ~IsDict(b)           \* no attribute items
                  THEN [heap |-> c.heap, ret |-> NoneVal, raised |-> TRUE]
                  ELSE MergeLoop(c.heap, c.ret.ref, b.ref,
                                 KeysOf(c.heap[b.ref]), 1)

(***************************************************************************)
(* Configuration trees as plain values, and their allocation on the heap.  *)
(***************************************************************************)
Tree(m) == [t |-> "dict", m |-> m]

EmptyTree == Tree([k \in {} |-> NoneVal])

RECURSIVE Entries(_)
RECURSIVE EntriesOf(_, _)
EntriesOf(m, ks) ==
    IF ks = {} THEN 0
    ELSE LET k == CHOOSE x \in ks : TRUE
         IN  1 + Entries(m[k]) + EntriesOf(m, ks \ {k})

\* number of key-value pairs of a tree, nested ones included
Entries(tv) == IF tv.t = "dict" THEN EntriesOf(tv.m, DOMAIN tv.m) ELSE 0

TreeKeys == {"a", "b"}

TreeLeaves == { IntVal(5), ListVal(<<1>>), ListVal(<<2>>) }

RECURSIVE TreeDicts(_)
TreeDicts(n) ==
    IF n = 0 THEN { EmptyTree }
    ELSE LET vals == TreeLeaves \cup TreeDicts(n - 1)
             maps == UNION { [S -> vals] : S \in SUBSET TreeKeys }
         IN  { tv \in { Tree(m) : m \in maps } : Entries(tv) <= n }

\* the worked examples of the specification
ExampleMerges ==
    { << Tree(("a" :> IntVal(1)) @@ ("b" :> Tree("c" :> IntVal(2)))),
         Tree("b" :> Tree(("c" :> IntVal(3)) @@ ("d" :> IntVal(4)))) >>,
      << Tree("a" :> Tree("x" :> IntVal(1))),
         Tree("a" :> IntVal(5)) >> }

RECURSIVE Alloc(_, _)
RECURSIVE AllocItems(_, _, _, _, _)

\* allocate the values of m for the keys ks[i..], then the object itself
AllocItems(h, m, ks, i, obj) ==
    IF i > Len(ks) THEN [heap |-> Append(h, obj), val |-> DictRef(Len(h) + 1)]
    ELSE LET r == Alloc(h, m[ks[i]])
         IN  AllocItems(r.heap, m, ks, i + 1, SetItem(obj, ks[i], r.val))

\* the heap h extended by the objects of the tree tv, and the value for tv
Alloc(h, tv) ==
    IF tv.t = "dict" THEN AllocItems(h, tv.m, KeysOf(tv.m), 1, EmptyObj)
    ELSE [heap |-> h, val |-> tv]

\* the tree denoted by value v in heap h
RECURSIVE ValOf(_, _)
ValOf(h, v) ==
    IF v.t = "dict"
    THEN Tree([k \in DOMAIN h[v.ref] |-> ValOf(h, h[v.ref][k])])
    ELSE v

\* arguments that are no mappings
NonTrees == { IntVal(0), IntVal(5), ListVal(<<>>), ListVal(<<1>>) }

GenTrees == TreeDicts(MaxEntries)

\* the calls of deep_merge: the trees the arguments are built from, and the
\* way they are passed
\*   "sep"   two separate trees        "same"  one object passed twice
\*   "part"  b is the dict a["a"]      "none"  None for a, for b or for both
\*   "bad"   an argument that is no mapping
MergeCall(ta, tb, how, h, a, b) ==
    LET ra == Alloc(<<>>, ta)
        rb == Alloc(ra.heap, tb)
    IN  CASE how = "sep"   -> h = rb.heap /\ a = ra.val /\ b = rb.val
          [] how = "same"  -> ta = tb /\ h = ra.heap /\ a = ra.val /\ b = ra.val
          [] how = "part"  -> /\ ta = tb
                              /\ "a" \in DOMAIN ta.m
                              /\ ta.m["a"].t = "dict"
                              /\ h = ra.heap /\ a = ra.val
                              /\ b = ra.heap[ra.val.ref]["a"]
          [] how = "none"  -> /\ ta = tb
                              /\ h = ra.heap
                              /\ \/ a = NoneVal /\ b = ra.val
                                 \/ a = ra.val /\ b = NoneVal
                                 \/ a = NoneVal /\ b = NoneVal
          [] how = "bad"   -> /\ ta = tb
                              /\ h = ra.heap
                              /\ \E nt \in NonTrees :
                                    \/ a = nt /\ b = ra.val
                                    \/ a = ra.val /\ b = nt

(***************************************************************************)
(* State machine: one call per behaviour.                                  *)
(***************************************************************************)
InitSubst ==
    /\ pc = "call_subst"
    /\ \E inp \in RenderInputs : text = inp[1] /\ mapping = inp[2]
    /\ heap = <<>> /\ arg_a = NoneVal /\ arg_b = NoneVal

InitMerge ==
    /\ pc = "call_merge"
    /\ \/ \E ta \in GenTrees, tb \in GenTrees,
               how \in {"sep", "same", "part", "none", "bad"} :
               MergeCall(ta, tb, how, heap, arg_a, arg_b)
       \/ \E ex \in ExampleMerges :
               MergeCall(ex[1], ex[2], "sep", heap, arg_a, arg_b)
    /\ text = <<>> /\ mapping = <<>>

Init ==
    /\ InitSubst \/ InitMerge
    /\ rendered = <<>>
    /\ repl_calls = 0
    /\ merged = NoneVal
    /\ raised = FALSE
    /\ AssocIdle
    /\ LaterIdle

CallSubstTemplate ==
    /\ pc = "call_subst"
    /\ LET r == _subst_template(text, mapping)
       IN  /\ raised' = r.raised
           /\ rendered' = IF r.raised THEN <<>> ELSE r.val
           /\ repl_calls' = r.calls
    /\ pc' = "subst_done"
    /\ UNCHANGED <<text, mapping, mergeVars, assocVars, laterVars>>

CallDeepMerge ==
    /\ pc = "call_merge"
    /\ LET r == deep_merge(heap, arg_a, arg_b)
       IN  /\ raised' = r.raised
           /\ heap' = r.heap
           /\ merged' = r.ret
    /\ pc' = "merge_done"
    /\ UNCHANGED <<arg_a, arg_b, substVars, assocVars, laterVars>>

Next == CallSubstTemplate \/ CallDeepMerge

Spec == Init /\ [][Next]_vars

(***************************************************************************)
(* Chains of two merges: (a merged with b) merged with c, and a merged     *)
(* with (b merged with c), computed one call after the other on one heap.  *)
(***************************************************************************)
SubstIdle == text = <<>> /\ mapping = <<>> /\ rendered = <<>> /\ repl_calls = 0

InitChain ==
    /\ pc = "chain_left_inner"
    /\ \E ta \in TreeDicts(MaxChainEntries),
          tb \in TreeDicts(MaxChainEntries - 1),
          tc \in TreeDicts(MaxChainEntries - 1) :
          LET ra == Alloc(<<>>, ta)
              rb == Alloc(ra.heap, tb)
              rc == Alloc(rb.heap, tc)
          IN  /\ heap = rc.heap
              /\ arg_a = ra.val /\ arg_b = rb.val /\ arg_c = rc.val
    /\ inner = <<>> /\ left = <<>> /\ right = <<>>
    /\ merged = NoneVal
    /\ raised = FALSE
    /\ SubstIdle
    /\ LaterIdle

\* one call deep_merge(x, y) of the chain, at position here
ChainCall(here, next, x, y, r) ==
    /\ pc = here
    /\ raised' = r.raised
    /\ heap' = r.heap
    /\ pc' = IF r.raised THEN "chain_raised" ELSE next
    /\ UNCHANGED <<arg_a, arg_b, arg_c, merged, substVars, laterVars>>

\* inner = deep_merge(a, b)
ChainLeftInner ==
    LET r == deep_merge(heap, arg_a, arg_b)
    IN  /\ ChainCall("chain_left_inner", "chain_left_outer", arg_a, arg_b, r)
        /\ inner' = r.ret
        /\ UNCHANGED <<left, right>>

\* left = deep_merge(inner, c)
ChainLeftOuter ==
    LET r == deep_merge(heap, inner, arg_c)
    IN  /\ ChainCall("chain_left_outer", "chain_right_inner", inner, arg_c, r)
        /\ left' = r.ret
        /\ UNCHANGED <<inner, right>>

\* inner = deep_merge(b, c)
ChainRightInner ==
    LET r == deep_merge(heap, arg_b, arg_c)
    IN  /\ ChainCall("chain_right_inner", "chain_right_outer", arg_b, arg_c, r)
        /\ inner' = r.ret
        /\ UNCHANGED <<left, right>>

\* right = deep_merge(a, inner)
ChainRightOuter ==
    LET r == deep_merge(heap, arg_a, inner)
    IN  /\ ChainCall("chain_right_outer", "chain_done", arg_a, inner, r)
        /\ right' = r.ret
        /\ UNCHANGED <<inner, left>>

NextChain ==
    ChainLeftInner \/ ChainLeftOuter \/ ChainRightInner \/ ChainRightOuter

SpecChain == InitChain /\ [][NextChain]_vars

(***************************************************************************)
(* Kubeconfig documents.  The text written by _render is kept as its       *)
(* lines; a line is its indentation, whether it opens a list item with a   *)
(* dash, its key and the text after the colon (a line without a key is the *)
(* continuation of a folded scalar).  The strings put into the text are    *)
(* plain scalars: names, addresses and base64 text, or the empty string.   *)
(***************************************************************************)
Line(ind, key, val) == [ind |-> ind, dash |-> FALSE, key |-> key, val |-> val]

Item(ind, key, val) == [ind |-> ind, dash |-> TRUE, key |-> key, val |-> val]

More(ind, val) == [ind |-> ind, dash |-> FALSE, key |-> "", val |-> val]

\* the f-string of kubeconfig_gke_exec._render
_render(name, ep, ca) ==
    << Line(0, "apiVersion", "v1"),
       Line(0, "kind", "Config"),
       Line(0, "current-context", name),
       Line(0, "clusters", ""),
       Item(0, "name", name),
       Line(2, "cluster", ""),
       Line(4, "server", "https://" \o ep),
       Line(4, "certificate-authority-data", ca),
       Line(0, "contexts", ""),
       Item(0, "name", name),
       Line(2, "context", ""),
       Line(4, "cluster", name),
       Line(4, "user", name),
       Line(0, "users", ""),
       Item(0, "name", name),
       Line(2, "user", ""),
       Line(4, "exec", ""),
       Line(6, "apiVersion", "client.authentication.k8s.io/v1"),
       Line(6, "command", "gke-gcloud-auth-plugin"),
       Line(6, "installHint", ">-"),
       More(8, "Install gke-gcloud-auth-plugin: https://cloud.google.com/blog/products/containers-kubernetes/kubectl-auth-changes-in-gke"),
       Line(6, "provideClusterInfo", "true"),
       Line(6, "interactiveMode", "false") >>

(***************************************************************************)
(* yaml.safe_load of a document of block mappings and block lists.  A      *)
(* plain scalar is resolved by its text: nothing or a null word is None,   *)
(* true and false are booleans, any other text of the documents here is a  *)
(* string; a folded scalar is always a string.                             *)
(***************************************************************************)
Str(v) == [t |-> "str", v |-> v]

Bool(b) == [t |-> "bool", b |-> b]

Scalar(txt) ==
    CASE txt \in {"", "~", "null", "Null", "NULL"} -> NoneVal
      [] txt \in {"true", "True", "TRUE"} -> Bool(TRUE)
      [] txt \in {"false", "False", "FALSE"} -> Bool(FALSE)
      [] OTHER -> Str(txt)

\* the column of the key of a line
KeyCol(ln) == IF ln.dash THEN ln.ind + 2 ELSE ln.ind

RECURSIVE ParseNode(_, _, _)
RECURSIVE ParseMapping(_, _, _, _, _)
RECURSIVE ParseList(_, _, _, _)
RECURSIVE ParseFolded(_, _, _, _)

\* the lines after a folded-scalar indicator, more indented than column col
ParseFolded(lines, i, col, acc) ==
    IF i <= Len(lines) /\ lines[i].key = "" /\ lines[i].ind > col
    THEN ParseFolded(lines, i + 1, col,
                     IF acc = "" THEN lines[i].val
                     ELSE acc \o " " \o lines[i].val)
    ELSE [val |-> Str(acc), next |-> i]

\* the mapping whose keys stand at column col, from line i on; first tells
\* that line i may open a list item
ParseMapping(lines, i, col, first, acc) ==
    IF /\ i <= Len(lines)
       /\ lines[i].key # ""
       /\ KeyCol(lines[i]) = col
       /\ (lines[i].dash => first)
    THEN LET ln == lines[i]
             r  == IF ln.val = ">-" THEN ParseFolded(lines, i + 1, col, "")
                   ELSE IF ln.val # "" THEN [val |-> Scalar(ln.val), next |-> i + 1]
                   ELSE ParseNode(lines, i + 1, col)
         IN  ParseMapping(lines, r.next, col, FALSE, SetItem(acc, ln.key, r.val))
    ELSE [val |-> Tree(acc), next |-> i]

\* the list whose dashes stand at column col, from line i on
ParseList(lines, i, col, acc) ==
    IF i <= Len(lines) /\ lines[i].dash /\ lines[i].ind = col
    THEN LET r == ParseMapping(lines, i, col + 2, TRUE, EmptyObj)
         IN  ParseList(lines, r.next, col, Append(acc, r.val))
    ELSE [val |-> ListVal(acc), next |-> i]

\* the value of a key at column col that has no text of its own
ParseNode(lines, i, col) ==
    IF i > Len(lines) THEN [val |-> Scalar(""), next |-> i]
    ELSE IF lines[i].dash /\ lines[i].ind >= col
         THEN ParseList(lines, i, lines[i].ind, <<>>)
         ELSE IF ~lines[i].dash /\ lines[i].key # "" /\ lines[i].ind > col
              THEN ParseMapping(lines, i, lines[i].ind, FALSE, EmptyObj)
              ELSE [val |-> Scalar(""), next |-> i]

\* the document of a text
ParseDocument(lines) == ParseMapping(lines, 1, 0, FALSE, EmptyObj).val

(***************************************************************************)
(* json.dumps and json.loads.  The JSON text is kept as its tokens; a dict  *)
(* is written in the order its keys were inserted.                         *)
(***************************************************************************)
Tok(k) == [k |-> k]

StrTok(v) == [k |-> "str", v |-> v]

\* the keys of the kubeconfig dict in the order of the dict literal
JsonKeyOrder ==
    << "apiVersion", "kind", "current-context", "contexts", "clusters",
       "users", "name", "context", "cluster", "user", "server", "exec",
       "command", "installHint", "provideClusterInfo" >>

RECURSIVE JsonDumps(_)
RECURSIVE DumpItems(_, _)
RECURSIVE DumpMembers(_, _, _)

DumpItems(q, i) ==
    IF i > Len(q) THEN <<>>
    ELSE (IF i > 1 THEN <<Tok(",")>> ELSE <<>>) \o JsonDumps(q[i]) \o DumpItems(q, i + 1)

DumpMembers(m, ks, i) ==
    IF i > Len(ks) THEN <<>>
    ELSE (IF i > 1 THEN <<Tok(",")>> ELSE <<>>)
         \o <<StrTok(ks[i]), Tok(":")>> \o JsonDumps(m[ks[i]])
         \o DumpMembers(m, ks, i + 1)

JsonDumps(v) ==
    CASE v.t = "str"  -> <<StrTok(v.v)>>
      [] v.t = "bool" -> <<Tok(IF v.b THEN "true" ELSE "false")>>
      [] v.t = "none" -> <<Tok("null")>>
      [] v.t = "list" -> <<Tok("[")>> \o DumpItems(v.s, 1) \o <<Tok("]")>>
      [] v.t = "dict" ->
            <<Tok("{")>>
            \o DumpMembers(v.m, SelectSeq(JsonKeyOrder, LAMBDA k : k \in DOMAIN v.m), 1)
            \o <<Tok("}")>>

RECURSIVE LoadValue(_, _)
RECURSIVE LoadItems(_, _, _)
RECURSIVE LoadMembers(_, _, _)

LoadItems(toks, i, acc) ==
    IF toks[i].k = "]" THEN [val |-> ListVal(acc), next |-> i + 1]
    ELSE LET r == LoadValue(toks, IF toks[i].k = "," THEN i + 1 ELSE i)
         IN  LoadItems(toks, r.next, Append(acc, r.val))

LoadMembers(toks, i, acc) ==
    IF toks[i].k = "}" THEN [val |-> Tree(acc), next |-> i + 1]
    ELSE LET j == IF toks[i].k = "," THEN i + 1 ELSE i
             r == LoadValue(toks, j + 2)
         IN  LoadMembers(toks, r.next, SetItem(acc, toks[j].v, r.val))

LoadValue(toks, i) ==
    CASE toks[i].k = "str"   -> [val |-> Str(toks[i].v), next |-> i + 1]
      [] toks[i].k = "true"  -> [val |-> Bool(TRUE), next |-> i + 1]
      [] toks[i].k = "false" -> [val |-> Bool(FALSE), next |-> i + 1]
      [] toks[i].k = "null"  -> [val |-> NoneVal, next |-> i + 1]
      [] toks[i].k = "["     -> LoadItems(toks, i + 1, <<>>)
      [] toks[i].k = "{"     -> LoadMembers(toks, i + 1, EmptyObj)

JsonLoads(toks) == LoadValue(toks, 1).val

(***************************************************************************)
(* KubeconfigGenerator._generate_kubeconfig_string                         *)
(***************************************************************************)
\* the name of the context with the cluster name left bare
GenContextBare(cluster_name) == cluster_name

\* context = f"gke_{cluster_name}"
GenContext(cluster_name) == "gke_" \o cluster_name

\* an exec descriptor that leaves provideClusterInfo out
GenExecNoClusterInfo ==
    Tree(("apiVersion" :> Str("client.authentication.k8s.io/v1beta1")) @@
         ("command" :> Str("gke-gcloud-auth-plugin")) @@
         ("installHint" :> Str("Install gke-gcloud-auth-plugin for use with kubectl by following https://cloud.google.com/blog/products/containers-kubernetes/kubectl-auth-changes-in-gke")))

\* the "exec" dict of the user entry
GenExec ==
    Tree(("apiVersion" :> Str("client.authentication.k8s.io/v1beta1")) @@
         ("command" :> Str("gke-gcloud-auth-plugin")) @@
         ("installHint" :> Str("Install gke-gcloud-auth-plugin for use with kubectl by following https://cloud.google.com/blog/products/containers-kubernetes/kubectl-auth-changes-in-gke")) @@
         ("provideClusterInfo" :> Bool(TRUE)))

_generate_kubeconfig_string(cluster_name, dns_endpoint) ==
    LET context == GenContext(cluster_name)
    IN  JsonDumps(Tree(
          ("apiVersion" :> Str("v1")) @@
          ("kind" :> Str("Config")) @@
          ("current-context" :> Str(context)) @@
          ("contexts" :> ListVal(<< Tree(
              ("name" :> Str(context)) @@
              ("context" :> Tree(("cluster" :> Str(cluster_name)) @@
                                 ("user" :> Str("admin")))) ) >>)) @@
          ("clusters" :> ListVal(<< Tree(
              ("name" :> Str(cluster_name)) @@
              ("cluster" :> Tree("server" :> Str("https://" \o dns_endpoint))) ) >>)) @@
          ("users" :> ListVal(<< Tree(
              ("name" :> Str("admin")) @@
              ("user" :> Tree("exec" :> GenExec)) ) >>)) ))

(***************************************************************************)
(* Outputs of the cluster and the two renderers applied to them.           *)
(***************************************************************************)
Unresolved == [known |-> FALSE]

Resolved(v) == [known |-> TRUE, v |-> v]

ClusterNames == { "c1", "gke-cluster", "" }

Endpoints == { "1.2.3.4", "10.0.0.2", "" }

CaCerts == { "BASE64CA", "LS0tLS1CRUdJTg==", "" }

\* cluster.control_plane_endpoints_config: the endpoint of its
\* dns_endpoint_config, or None when the cluster has no such configuration
DnsEndpoints == { Str("gke-1a2b.us-central1.gke.goog"), Str(""), NoneVal }

\* the names bound in module kubeconfig.kubeconfig
KubeconfigModuleNames ==
    { "Optional", "Union", "pulumi", "Output", "ResourceOptions",
      "_StrOrOut", "_as_output", "kubeconfig_gke_exec" }

InitKube ==
    /\ pc = "kube"
    /\ out_name = Unresolved /\ out_endpoint = Unresolved
    /\ out_ca = Unresolved /\ out_cpcfg = Unresolved
    /\ render_args = <<>>
    /\ kubeconfig = <<>>
    /\ gen_kubeconfig = <<>>
    /\ imported = "no"
    /\ raised = FALSE
    /\ SubstIdle
    /\ heap = <<>> /\ arg_a = <<>> /\ arg_b = <<>> /\ merged = <<>>
    /\ AssocIdle
    /\ OtelIdle /\ GkeIdle /\ TlsIdle /\ WsIdle

kubeFrame ==
    <<pc, substVars, mergeVars, assocVars, otelVars, gkeVars, tlsVars, wsVars>>

\* the engine resolves an Output of the cluster
ResolveName ==
    /\ pc = "kube" /\ ~out_name.known
    /\ \E v \in ClusterNames : out_name' = Resolved(v)
    /\ UNCHANGED <<out_endpoint, out_ca, out_cpcfg, render_args, kubeconfig,
                   gen_kubeconfig, imported, raised, kubeFrame>>

ResolveEndpoint ==
    /\ pc = "kube" /\ ~out_endpoint.known
    /\ \E v \in Endpoints : out_endpoint' = Resolved(v)
    /\ UNCHANGED <<out_name, out_ca, out_cpcfg, render_args, kubeconfig,
                   gen_kubeconfig, imported, raised, kubeFrame>>

ResolveCa ==
    /\ pc = "kube" /\ ~out_ca.known
    /\ \E v \in CaCerts : out_ca' = Resolved(v)
    /\ UNCHANGED <<out_name, out_endpoint, out_cpcfg, render_args, kubeconfig,
                   gen_kubeconfig, imported, raised, kubeFrame>>

ResolveCpConfig ==
    /\ pc = "kube" /\ ~out_cpcfg.known
    /\ \E v \in DnsEndpoints : out_cpcfg' = Resolved(v)
    /\ UNCHANGED <<out_name, out_endpoint, out_ca, render_args, kubeconfig,
                   gen_kubeconfig, imported, raised, kubeFrame>>

\* a value of an Output read before the Output is known
Peek(o) == IF o.known THEN o.v ELSE ""

\* a callback that runs as soon as the name is known, and again later
ApplyRenderEarly ==
    /\ pc = "kube"
    /\ out_name.known
    /\ Len(render_args) < 2
    /\ render_args' = Append(render_args,
                             <<Peek(out_name), Peek(out_endpoint), Peek(out_ca)>>)
    /\ kubeconfig' = _render(Peek(out_name), Peek(out_endpoint), Peek(out_ca))
    /\ UNCHANGED <<out_name, out_endpoint, out_ca, out_cpcfg,
                   gen_kubeconfig, imported, raised, kubeFrame>>

\* Output.all(n, e, c).apply(lambda xs: _render(*xs)): the callback runs
\* when the three Outputs are known, and once
ApplyRender ==
    /\ pc = "kube"
    /\ out_name.known /\ out_endpoint.known /\ out_ca.known
    /\ render_args = <<>>
    /\ render_args' = Append(render_args, <<out_name.v, out_endpoint.v, out_ca.v>>)
    /\ kubeconfig' = _render(out_name.v, out_endpoint.v, out_ca.v)
    /\ UNCHANGED <<out_name, out_endpoint, out_ca, out_cpcfg,
                   gen_kubeconfig, imported, raised, kubeFrame>>

\* generate_kubeconfig: dns_endpoint is the endpoint of the dns endpoint
\* configuration, else cluster.endpoint; the document is written when
\* cluster.name and dns_endpoint are known
ApplyGenerate ==
    /\ pc = "kube"
    /\ out_name.known /\ out_cpcfg.known
    /\ out_cpcfg.v = NoneVal => out_endpoint.known
    /\ gen_kubeconfig = <<>>
    /\ gen_kubeconfig' =
          _generate_kubeconfig_string(
              out_name.v,
              IF out_cpcfg.v # NoneVal THEN out_cpcfg.v.v ELSE out_endpoint.v)
    /\ UNCHANGED <<out_name, out_endpoint, out_ca, out_cpcfg, render_args,
                   kubeconfig, imported, raised, kubeFrame>>

\* components/__init__.py: from kubeconfig.kubeconfig import kubeconfig_gcp_user
ImportComponents ==
    /\ pc = "kube"
    /\ imported = "no"
    /\ imported' = IF "kubeconfig_gcp_user" \in KubeconfigModuleNames
                   THEN "ok" ELSE "ImportError"
    /\ UNCHANGED <<out_name, out_endpoint, out_ca, out_cpcfg, render_args,
                   kubeconfig, gen_kubeconfig, raised, kubeFrame>>

NextKube ==
    \/ ResolveName \/ ResolveEndpoint \/ ResolveCa \/ ResolveCpConfig
    \/ ApplyRender \/ ApplyGenerate \/ ImportComponents

SpecKube == InitKube /\ [][NextKube]_vars

\* the engine runs a callback whose inputs are all known
SpecKubeFair ==
    InitKube /\ [][NextKube]_vars /\ WF_vars(ApplyRender) /\ WF_vars(ApplyGenerate)

(***************************************************************************)
(* The otel-collector program: defaults.yaml is loaded once, then every    *)
(* configured app file is loaded, its Helm values are merged over the      *)
(* defaults and the chart is declared.                                     *)
(***************************************************************************)
MaxApps == 2

\* contents of defaults.yaml
DefaultsFiles ==
    { EmptyTree,
      Tree("a" :> IntVal(5)),
      Tree(("a" :> Tree("a" :> IntVal(5))) @@ ("b" :> ListVal(<<1>>))),
      Tree(("a" :> Tree("b" :> Tree("a" :> IntVal(5)))) @@ ("b" :> EmptyTree)),
      Tree("b" :> Tree(("a" :> ListVal(<<2>>)) @@ ("b" :> IntVal(5)))) }

\* a helm mapping without values, and one with values v
HelmPlain ==
    ("repo" :> Str("https://open-telemetry.github.io/opentelemetry-helm-charts"))
    @@ ("chart" :> Str("opentelemetry-collector"))

HelmWith(v) == HelmPlain @@ ("values" :> v)

\* values mappings of app files
AppValues ==
    { EmptyTree,
      Tree("a" :> IntVal(5)),
      Tree("a" :> EmptyTree),
      Tree("a" :> Tree("a" :> ListVal(<<1>>))),
      Tree("b" :> Tree("a" :> EmptyTree)),
      Tree(("a" :> Tree("b" :> Tree("b" :> IntVal(5)))) @@ ("b" :> ListVal(<<2>>))),
      Tree(("a" :> Tree("b" :> IntVal(5))) @@ ("b" :> Tree("b" :> ListVal(<<1>>)))) }

\* contents of an app file: no helm mapping, a helm mapping without
\* values, one with an empty values key, or one with a values mapping
AppFiles ==
    { Tree("name" :> Str("app")),
      Tree(("name" :> Str("app")) @@ ("helm" :> Tree(HelmPlain))) }
    \cup { Tree(("name" :> Str("app")) @@ ("helm" :> Tree(HelmWith(v)))) :
              v \in {NoneVal} \cup AppValues }

\* obj.get(k, {}): the value of k, or a new empty dict
GetOrNewDict(h, obj, k) ==
    IF k \in DOMAIN obj THEN [heap |-> h, val |-> obj[k]]
    ELSE [heap |-> Append(h, EmptyObj), val |-> DictRef(Len(h) + 1)]

\* helm_cfg_final = dict(helm_cfg); helm_cfg_final["values"] = merged_values
FinalHelmCfg(h, helm_cfg, merged_values) ==
    [heap |-> Append(h, SetItem(h[helm_cfg.ref], "values", merged_values)),
     val  |-> DictRef(Len(h) + 1)]

\* deploy_otel_helm reads helm_cfg["repo"] and helm_cfg["chart"]
DeployRaises(h, helm_cfg) ==
    ~({"repo", "chart"} \subseteq DOMAIN h[helm_cfg.ref])

InitOtel ==
    /\ pc = "otel_start"
    /\ heap = <<>> /\ arg_a = <<>> /\ arg_b = <<>> /\ merged = <<>>
    /\ raised = FALSE
    /\ defaults = <<>> /\ defaults0 = <<>> /\ apps = <<>>
    /\ SubstIdle /\ AssocIdle
    /\ KubeIdle /\ GkeIdle /\ TlsIdle /\ WsIdle

otelFrame ==
    <<arg_a, arg_b, merged, substVars, assocVars, kubeVars, gkeVars, tlsVars, wsVars>>

\* defaults = load_yaml_file("defaults.yaml")
LoadDefaults ==
    /\ pc = "otel_start"
    /\ \E tv \in DefaultsFiles :
          LET r == Alloc(heap, tv)
          IN  /\ heap' = r.heap
              /\ defaults' = r.val
              /\ defaults0' = tv
    /\ pc' = "otel_loop"
    /\ UNCHANGED <<apps, raised, otelFrame>>

\* one iteration of `for app_file in app_files`
ProcessApp ==
    /\ pc = "otel_loop"
    /\ Len(apps) < MaxApps
    /\ \E tv \in AppFiles :
          LET app       == Alloc(heap, tv)
              helm_cfg  == GetOrNewDict(app.heap, app.heap[app.val.ref], "helm")
              vals      == Get(helm_cfg.heap[helm_cfg.val.ref], "values")
              m         == deep_merge(helm_cfg.heap, defaults, vals)
              final     == FinalHelmCfg(m.heap, helm_cfg.val, m.ret)
              fails     == DeployRaises(final.heap, final.val)
          IN  /\ heap' = final.heap
              /\ apps' = Append(apps,
                    [ app      |-> app.val,
                      file     |-> tv,
                      deployed |-> ~fails,
                      values   |-> ValOf(final.heap,
                                         final.heap[final.val.ref]["values"]) ])
              /\ raised' = fails
              /\ pc' = IF fails THEN "otel_raised" ELSE "otel_loop"
    /\ UNCHANGED <<defaults, defaults0, otelFrame>>

\* pulumi.export("apps", outputs)
ExportApps ==
    /\ pc = "otel_loop"
    /\ pc' = "otel_done"
    /\ UNCHANGED <<heap, defaults, defaults0, apps, raised, otelFrame>>

NextOtel == LoadDefaults \/ ProcessApp \/ ExportApps

SpecOtel == InitOtel /\ [][NextOtel]_vars

(***************************************************************************)
(* GKECluster.__init__: the resources it declares and the attributes it    *)
(* assigns on self, in program order.                                      *)
(***************************************************************************)
\* bool(args.get(k, default)) of an args record whose absent keys hold
\* "absent" and whose booleans are written "True" and "False"
ArgOr(a, k, default) == IF a[k] = "absent" THEN default ELSE a[k] = "True"

\* the argument sets: the keys the construction branches on
GkeArgSets ==
    [ enable_autopilot         : {"absent", "True", "False"},
      node_service_account     : {"absent", "sa@project.iam.gserviceaccount.com"},
      enable_workload_identity : {"absent", "True", "False"},
      enable_ip_alias          : {"absent", "True"} ]

\* enable_autopilot = bool(args.get("enable_autopilot", False))
EnableAutopilot(a) == ArgOr(a, "enable_autopilot", FALSE)

\* the keys of cluster_kwargs whose value is not None
ClusterKwargs(a) ==
    { "name", "location", "project", "release_channel", "deletion_protection" }
    \cup (IF ArgOr(a, "enable_workload_identity", TRUE)
          THEN {"workload_identity_config"} ELSE {})
    \cup (IF ArgOr(a, "enable_ip_alias", FALSE)
          THEN {"ip_allocation_policy"} ELSE {})
    \cup (IF EnableAutopilot(a)
          THEN {"enable_autopilot"}
          ELSE {"remove_default_node_pool", "initial_node_count"}
               \cup (IF a.node_service_account # "absent"
                     THEN {"node_config"} ELSE {}))

\* the keys of the secrets dict, in the order of the dict literal
SecretNames == <<"kubeconfig", "cluster_name", "endpoint">>

\* the attributes of self read by the register_outputs call
RegisterReads ==
    { "name", "location", "endpoint", "ca_certificate", "kubeconfig", "agent_pool" }

Resource(type, name) == [type |-> type, name |-> name]

\* the secrets declared so far
SecretsDone == Cardinality({ i \in 1..Len(declared) : declared[i].type = "Secret" })

InitGke ==
    /\ pc = "gke_cluster"
    /\ gke_args \in GkeArgSets
    /\ declared = <<>>
    /\ attrs = {}
    /\ raised = FALSE
    /\ heap = <<>> /\ arg_a = <<>> /\ arg_b = <<>> /\ merged = <<>>
    /\ SubstIdle /\ AssocIdle
    /\ KubeIdle /\ OtelIdle /\ TlsIdle /\ WsIdle

gkeFrame ==
    <<gke_args, substVars, mergeVars, assocVars, kubeVars, otelVars, tlsVars, wsVars>>

\* cluster = gcp.container.Cluster(f"{name}-cluster", **cluster_kwargs)
CreateCluster ==
    /\ pc = "gke_cluster"
    /\ declared' = Append(declared,
                          [type |-> "Cluster", name |-> "cluster",
                           kwargs |-> ClusterKwargs(gke_args)])
    /\ pc' = "gke_pool"
    /\ UNCHANGED <<attrs, raised, gkeFrame>>

\* if not enable_autopilot: self.agent_pool = gcp.container.NodePool(...)
CreateNodePool ==
    /\ pc = "gke_pool"
    /\ IF ~EnableAutopilot(gke_args)
       THEN /\ declared' = Append(declared, Resource("NodePool", "agent-pool"))
            /\ attrs' = attrs \cup {"agent_pool"}
       ELSE UNCHANGED <<declared, attrs>>
    /\ pc' = "gke_secrets"
    /\ UNCHANGED <<raised, gkeFrame>>

\* one iteration of `for secret_name, secret_info in secrets.items()`
CreateSecret ==
    /\ pc = "gke_secrets"
    /\ SecretsDone < Len(SecretNames)
    /\ LET secret_name == SecretNames[SecretsDone + 1]
       IN  declared' = declared \o << Resource("Secret", secret_name),
                                      Resource("SecretVersion", secret_name) >>
    /\ UNCHANGED <<pc, attrs, raised, gkeFrame>>

\* self.name = ...; self.location = ...; self.endpoint = ...;
\* self.ca_certificate = ...; self.kubeconfig = ...
AssignOutputs ==
    /\ pc = "gke_secrets"
    /\ SecretsDone = Len(SecretNames)
    /\ attrs' = attrs \cup {"name", "location", "endpoint", "ca_certificate", "kubeconfig"}
    /\ pc' = "gke_register"
    /\ UNCHANGED <<declared, raised, gkeFrame>>

\* self.register_outputs({...}): reading an attribute that was never
\* assigned raises AttributeError
RegisterOutputs ==
    /\ pc = "gke_register"
    /\ IF RegisterReads \subseteq attrs
       THEN pc' = "gke_done" /\ raised' = FALSE
       ELSE pc' = "gke_raised" /\ raised' = TRUE
    /\ UNCHANGED <<declared, attrs, gkeFrame>>

NextGke ==
    \/ CreateCluster \/ CreateNodePool \/ CreateSecret
    \/ AssignOutputs \/ RegisterOutputs

SpecGke == InitGke /\ [][NextGke]_vars

(***************************************************************************)
(* WarpstreamCluster.__init__._ensure_tls(dct, enabled)                    *)
(***************************************************************************)
\* obj.pop(k, None)
Pop(obj, k) == [x \in (DOMAIN obj) \ {k} |-> obj[x]]

_ensure_tls(h, d_in, en) ==
    LET c == DictCopy(h, d_in)                     \* d = dict(dct or {})
    IN  IF c.raised THEN c
        ELSE LET d  == c.ret.ref
                 \* d.setdefault("certificate", {})
                 h1 == IF "certificate" \in DOMAIN c.heap[d]
                       THEN c.heap
                       ELSE Append([c.heap EXCEPT ![d] =
                                       SetItem(@, "certificate", DictRef(Len(c.heap) + 1))],
                                   EmptyObj)
                 cert == h1[d]["certificate"]
             IN  IF ~IsDict(cert)
                 THEN \* d["certificate"]["enableTLS"] = ... on None, a
                      \* number or a string raises TypeError
                      [heap |-> h1, ret |-> NoneVal, raised |-> TRUE]
                 ELSE LET h2 == [h1 EXCEPT ![cert.ref] = SetItem(@, "enableTLS", Bool(en))]
                          h3 == IF ~en
                                THEN [h2 EXCEPT ![cert.ref] = Pop(@, "secretName")]
                                ELSE h2
                      IN  [heap |-> h3, ret |-> c.ret, raised |-> FALSE]

\* the certificate mappings of a values file
CertificateMaps ==
    { Tree(sn @@ tl @@ ex) :
        sn \in { EmptyObj, "secretName" :> Str("warpstream-tls"), "secretName" :> NoneVal },
        tl \in { EmptyObj, "enableTLS" :> Bool(TRUE), "enableTLS" :> Bool(FALSE) },
        ex \in { EmptyObj, "a" :> IntVal(5) } }

\* the parsed values: every mapping with or without a certificate key and
\* with or without other keys; a certificate key with nothing under it is
\* parsed as None
ParsedValues ==
    { Tree(ce @@ ot) :
        ce \in { EmptyObj, "certificate" :> NoneVal }
               \cup { "certificate" :> cm : cm \in CertificateMaps },
        ot \in { EmptyObj, "a" :> IntVal(5), "b" :> Tree("a" :> ListVal(<<1>>)) } }

InitTls ==
    /\ pc = "call_tls"
    /\ enabled \in BOOLEAN
    /\ \/ heap = <<>> /\ dct = NoneVal
       \/ \E tv \in ParsedValues :
             LET r == Alloc(<<>>, tv) IN heap = r.heap /\ dct = r.val
    /\ tls_out = <<>>
    /\ raised = FALSE
    /\ arg_a = <<>> /\ arg_b = <<>> /\ merged = <<>>
    /\ SubstIdle /\ AssocIdle
    /\ KubeIdle /\ OtelIdle /\ GkeIdle /\ WsIdle

\* Output.all(values_dict_out, enable_tls_out).apply(
\*     lambda xs: _ensure_tls(xs[0], xs[1]))
CallEnsureTls ==
    /\ pc = "call_tls"
    /\ LET r == _ensure_tls(heap, dct, enabled)
       IN  /\ heap' = r.heap
           /\ tls_out' = r.ret
           /\ raised' = r.raised
    /\ pc' = "tls_done"
    /\ UNCHANGED <<dct, enabled, arg_a, arg_b, merged, substVars, assocVars,
                   kubeVars, otelVars, gkeVars, wsVars>>

NextTls == CallEnsureTls

SpecTls == InitTls /\ [][NextTls]_vars

(***************************************************************************)
(* The warpstream-agents program: it imports the module warpstream_cluster *)
(* and constructs a WarpstreamCluster.  Executing the module defines the   *)
(* dataclass WarpstreamClusterArgs; the decorator checks the fields in the *)
(* order of their annotations and raises TypeError at a field without      *)
(* default that follows a field with one.                                  *)
(***************************************************************************)
Field(name, has_default) == [name |-> name, has_default |-> has_default]

\* the annotated fields of WarpstreamClusterArgs, in the order of their first
\* annotation; ksa_name is annotated twice and its class attribute is None
ArgsFields ==
    << Field("project_id", FALSE),
       Field("region", FALSE),
       Field("kubeconfig_secret_id", FALSE),
       Field("namespace", TRUE),
       Field("stack_prefix", TRUE),
       Field("gsa_email", FALSE),
       Field("ksa_name", TRUE),
       Field("grant_bucket_roles", FALSE),
       Field("bucket_name", TRUE),
       Field("force_destroy_bucket", TRUE),
       Field("gcp_tls_cert_secret_id", TRUE),
       Field("k8s_tls_secret_name", TRUE),
       Field("chart_version", TRUE),
       Field("chart_repo", TRUE),
       Field("chart_name", TRUE),
       Field("values_template_path", TRUE),
       Field("agent_key_secret_id", TRUE),
       Field("virtual_cluster_id_secret_id", TRUE),
       Field("dns_record_name", TRUE),
       Field("warpstream_region", TRUE) >>

\* the arguments a caller means to construct the cluster with
WsArgSets ==
    [ gsa_email              : {"absent", "agent@project.iam.gserviceaccount.com"},
      gcp_tls_cert_secret_id : {"absent", "warpstream-tls-cert"},
      grant_bucket_roles     : {"absent", "True", "False"},
      bucket_name            : {"", "ws-bucket"} ]

InitWs ==
    /\ pc = "ws_import"
    /\ ws_args \in WsArgSets
    /\ ws_field = 0
    /\ seen_default = FALSE
    /\ ws_declared = <<>>
    /\ raised = FALSE
    /\ heap = <<>> /\ arg_a = <<>> /\ arg_b = <<>> /\ merged = <<>>
    /\ SubstIdle /\ AssocIdle
    /\ KubeIdle /\ OtelIdle /\ GkeIdle /\ TlsIdle

wsFrame ==
    <<ws_args, ws_declared, substVars, mergeVars, assocVars, kubeVars, otelVars,
      gkeVars, tlsVars>>

\* from warpstreamagents.warpstream_cluster import ...: the module body up
\* to the class statement of WarpstreamClusterArgs
ImportModule ==
    /\ pc = "ws_import"
    /\ pc' = "ws_class"
    /\ UNCHANGED <<ws_field, seen_default, raised, wsFrame>>

\* the dataclass decorator checks the next field of the class
CheckField ==
    /\ pc = "ws_class"
    /\ ws_field < Len(ArgsFields)
    /\ LET f == ArgsFields[ws_field + 1]
       IN  IF f.has_default
           THEN /\ seen_default' = TRUE
                /\ ws_field' = ws_field + 1
                /\ pc' = IF ws_field + 1 = Len(ArgsFields) THEN "ws_construct" ELSE pc
                /\ UNCHANGED raised
           ELSE IF seen_default
                THEN \* non-default argument follows default argument
                     /\ raised' = TRUE
                     /\ pc' = "ws_raised"
                     /\ UNCHANGED <<ws_field, seen_default>>
                ELSE /\ ws_field' = ws_field + 1
                     /\ pc' = IF ws_field + 1 = Len(ArgsFields) THEN "ws_construct" ELSE pc
                     /\ UNCHANGED <<seen_default, raised>>
    /\ UNCHANGED wsFrame

NextWs == ImportModule \/ CheckField

SpecWs == InitWs /\ [][NextWs]_vars

(***************************************************************************)
(* Vocabulary of the template properties, stated on the text itself and    *)
(* independent of the scanner above.                                       *)
(***************************************************************************)
\* positions i..j of s hold a well-formed placeholder
WellFormed(s, i, j) ==
    /\ 1 <= i /\ i + 3 <= j /\ j <= Len(s)
    /\ s[i] = "$" /\ s[i + 1] = "{" /\ s[j] = "}"
    /\ s[i + 2] \in {"A", "B", "a", "_"}
    /\ \A k \in (i + 3)..(j - 1) : s[k] \in {"A", "B", "a", "_", "1"}

Placeholders(s) ==
    { ph \in UNION { { <<i, j>> : j \in (i + 3)..Len(s) } :
                     i \in { k \in 1..Len(s) : s[k] = "$" } } :
        WellFormed(s, ph[1], ph[2]) }

PhName(s, ph) == SubSeq(s, ph[1] + 2, ph[2] - 1)

PhText(s, ph) == SubSeq(s, ph[1], ph[2])

Known(s, mp, ph) == PhName(s, ph) \in DOMAIN mp

\* position p of s lies in none of the placeholders phs
Outside(phs, p) == \A ph \in phs : p < ph[1] \/ p > ph[2]

\* growth of the text caused by a placeholder of phs that ends at position j,
\* when known ones become their value and unknown ones stay
EndGrowth(s, mp, phs, j) ==
    IF \E ph \in phs : ph[2] = j /\ Known(s, mp, ph)
    THEN LET ph == CHOOSE x \in phs : x[2] = j
         IN  Len(mp[PhName(s, ph)]) - (ph[2] - ph[1] + 1)
    ELSE 0

RECURSIVE GrowthBefore(_, _, _, _)
GrowthBefore(s, mp, phs, p) ==
    IF p <= 1 THEN 0
    ELSE GrowthBefore(s, mp, phs, p - 1) + EndGrowth(s, mp, phs, p - 1)

\* where each position of s is expected in the output
OutPositions(s, mp, phs) ==
    [ p \in 1..(Len(s) + 1) |-> p + GrowthBefore(s, mp, phs, p) ]

\* out holds the string v at position q
HoldsAt(out, q, v) ==
    /\ q >= 1
    /\ q + Len(v) - 1 <= Len(out)
    /\ \A k \in 1..Len(v) : out[q + k - 1] = v[k]

SubstDone == pc = "subst_done"

(***************************************************************************)
(* C1: every placeholder whose identifier is not a key of the mapping      *)
(* (compared exactly, case-sensitively) is found unchanged, delimiters     *)
(* included, at its place in the output of _subst_template; it is neither  *)
(* dropped nor the cause of an error.                                      *)
(***************************************************************************)
C1_UnknownPassThrough ==
    SubstDone =>
        LET phs == Placeholders(text)
            pos == OutPositions(text, mapping, phs)
        IN  /\ ~raised
            /\ \A ph \in phs :
                  ~Known(text, mapping, ph) =>
                      HoldsAt(rendered, pos[ph[1]], PhText(text, ph))

\* an unknown placeholder (one differing from a key only in case among
\* them) follows a known one whose value has another length
C1_Witness ==
    /\ SubstDone
    /\ \E ph \in Placeholders(text), kn \in Placeholders(text) :
          /\ ~Known(text, mapping, ph)
          /\ Known(text, mapping, kn)
          /\ kn[2] < ph[1]
          /\ Len(mapping[PhName(text, kn)]) # kn[2] - kn[1] + 1
          /\ PhName(text, ph) = <<"a">>
          /\ <<"A">> \in DOMAIN mapping

(***************************************************************************)
(* C2: every occurrence of a placeholder whose identifier is a key is      *)
(* replaced by the mapped value, each occurrence on its own, and the text  *)
(* outside placeholders is copied unchanged and in order; the two worked   *)
(* examples render to "x-y" and "zz".                                      *)
(***************************************************************************)
C2_KnownSubstituted ==
    SubstDone =>
        LET phs == Placeholders(text)
            pos == OutPositions(text, mapping, phs)
        IN
        /\ \A ph \in phs :
              Known(text, mapping, ph) =>
                  HoldsAt(rendered, pos[ph[1]], mapping[PhName(text, ph)])
        /\ \A p \in 1..Len(text) :
              Outside(phs, p) => HoldsAt(rendered, pos[p], <<text[p]>>)
        /\ Len(rendered) = pos[Len(text) + 1] - 1
        /\ ( /\ text = <<"$", "{", "A", "}", "-", "$", "{", "B", "}">>
             /\ mapping = (<<"A">> :> <<"x">>) @@ (<<"B">> :> <<"y">>) )
               => rendered = <<"x", "-", "y">>
        /\ ( /\ text = <<"$", "{", "A", "}", "$", "{", "A", "}">>
             /\ mapping = (<<"A">> :> <<"z">>) )
               => rendered = <<"z", "z">>

\* the same known placeholder twice and adjacent, with text around
C2_Witness ==
    /\ SubstDone
    /\ \E ph \in Placeholders(text), qh \in Placeholders(text) :
          /\ qh[1] = ph[2] + 1
          /\ PhName(text, ph) = PhName(text, qh)
          /\ Known(text, mapping, ph)
          /\ mapping[PhName(text, ph)] = <<"x">>
    /\ \E p \in 1..Len(text) : Outside(Placeholders(text), p)

(***************************************************************************)
(* C3: substitution is single-pass.  A replacement value that itself holds *)
(* a placeholder is emitted literally and is not substituted again, the    *)
(* replacement function runs once per placeholder of the template, and a   *)
(* mapping that sends each key to its own placeholder returns the template.*)
(***************************************************************************)
SelfReferential(mp) ==
    /\ DOMAIN mp # {}
    /\ \A k \in DOMAIN mp : mp[k] = <<"$", "{">> \o k \o <<"}">>

C3_SinglePass ==
    SubstDone =>
        LET phs == Placeholders(text)
            pos == OutPositions(text, mapping, phs)
        IN
        /\ \A ph \in phs :
              ( /\ Known(text, mapping, ph)
                /\ Placeholders(mapping[PhName(text, ph)]) # {} )
              => HoldsAt(rendered, pos[ph[1]], mapping[PhName(text, ph)])
        /\ repl_calls = Cardinality(phs)
        /\ SelfReferential(mapping) => rendered = text

\* a value that names another key of the mapping has been inserted
C3_Witness ==
    /\ SubstDone
    /\ \E ph \in Placeholders(text) :
          /\ Known(text, mapping, ph)
          /\ \E vh \in Placeholders(mapping[PhName(text, ph)]) :
                /\ Known(mapping[PhName(text, ph)], mapping, vh)
                /\ PhName(mapping[PhName(text, ph)], vh) # PhName(text, ph)

(***************************************************************************)
(* C4: _subst_template has no error outcome, and text that is not a        *)
(* well-formed placeholder (an unbalanced opening, an empty name, a name   *)
(* starting with a digit or holding a foreign character, a bare dollar     *)
(* name) is copied literally whatever the mapping holds: a dollar sign     *)
(* that starts no well-formed placeholder is kept with what follows it,    *)
(* and a template without a well-formed placeholder is returned as is.     *)
(***************************************************************************)
C4_MalformedLiteral ==
    SubstDone =>
        LET phs == Placeholders(text)
            pos == OutPositions(text, mapping, phs)
        IN
        /\ ~raised
        /\ phs = {} => rendered = text
        /\ \A p \in 1..Len(text) :
              ( text[p] = "$" /\ \A ph \in phs : ph[1] # p )
              => /\ HoldsAt(rendered, pos[p], <<"$">>)
                 /\ \A q \in (p + 1)..Len(text) :
                       ( \A r \in (p + 1)..q : Outside(phs, r) )
                       => HoldsAt(rendered, pos[q], <<text[q]>>)

\* a name starting with a digit that is a key of the mapping, next to a
\* substituted placeholder
C4_Witness ==
    /\ SubstDone
    /\ <<"1", "A">> \in DOMAIN mapping
    /\ \E p \in 1..Len(text) :
          /\ p + 4 <= Len(text)
          /\ SubSeq(text, p, p + 4) = <<"$", "{", "1", "A", "}">>
    /\ \E ph \in Placeholders(text) :
          Known(text, mapping, ph) /\ mapping[PhName(text, ph)] = <<>>

(***************************************************************************)
(* Vocabulary of the merge properties, on trees as plain values.           *)
(***************************************************************************)
MergeDone == pc = "merge_done"

\* an argument is a tree-shaped mapping, or None
IsTreeArg(v) == v.t \in {"dict", "none"}

RECURSIVE IsMergeOf(_, _, _)
\* r has the keys of x and y, the value of the one tree that has a key, and
\* for a key of both that holds mappings in both a merge of the two
IsMergeOf(r, x, y) ==
    /\ r.t = "dict"
    /\ DOMAIN r.m = (DOMAIN x.m) \cup (DOMAIN y.m)
    /\ \A k \in DOMAIN r.m :
          /\ k \notin DOMAIN y.m => r.m[k] = x.m[k]
          /\ k \notin DOMAIN x.m => r.m[k] = y.m[k]
          /\ ( /\ k \in DOMAIN x.m /\ k \in DOMAIN y.m
               /\ x.m[k].t = "dict" /\ y.m[k].t = "dict" )
             => IsMergeOf(r.m[k], x.m[k], y.m[k])

RECURSIVE OverrideWins(_, _, _)
\* at every key of both x and y, down the mappings of both, where the two
\* values are not both mappings, r holds the value of y
OverrideWins(r, x, y) ==
    /\ r.t = "dict"
    /\ \A k \in (DOMAIN x.m) \cap (DOMAIN y.m) :
          /\ k \in DOMAIN r.m
          /\ IF x.m[k].t = "dict" /\ y.m[k].t = "dict"
             THEN OverrideWins(r.m[k], x.m[k], y.m[k])
             ELSE r.m[k] = y.m[k]

(***************************************************************************)
(* C5: empty inputs are fixed points: _subst_template with the empty       *)
(* mapping returns the template, the empty template renders to the empty   *)
(* string under every mapping, and deep_merge of two empty mappings is the *)
(* empty mapping.                                                          *)
(***************************************************************************)
C5_EmptyInputs ==
    /\ (SubstDone /\ DOMAIN mapping = {}) => (~raised /\ rendered = text)
    /\ (SubstDone /\ text = <<>>) => (~raised /\ rendered = <<>>)
    /\ ( /\ MergeDone
         /\ ValOf(heap, arg_a) = EmptyTree
         /\ ValOf(heap, arg_b) = EmptyTree )
       => (~raised /\ ValOf(heap, merged) = EmptyTree)

\* a template with placeholders has been rendered with the empty mapping
C5_Witness ==
    /\ SubstDone
    /\ DOMAIN mapping = {}
    /\ Cardinality(Placeholders(text)) >= 2

(***************************************************************************)
(* C6: deep_merge(base, override) has exactly the keys of base and         *)
(* override; a key of base alone carries base's value, a key of override   *)
(* alone carries override's value, and a key of both whose values are both *)
(* mappings carries the merge of the two values; so                        *)
(* merge({a:1, b:{c:2}}, {b:{c:3, d:4}}) = {a:1, b:{c:3, d:4}}.            *)
(***************************************************************************)
C6_KeyUnion ==
    [][ ( CallDeepMerge /\ IsDict(arg_a) /\ IsDict(arg_b) )
        => /\ ~raised'
           /\ IsMergeOf(ValOf(heap', merged'),
                        ValOf(heap, arg_a), ValOf(heap, arg_b))
           /\ ( <<ValOf(heap, arg_a), ValOf(heap, arg_b)>> =
                  << Tree(("a" :> IntVal(1)) @@ ("b" :> Tree("c" :> IntVal(2)))),
                     Tree("b" :> Tree(("c" :> IntVal(3)) @@ ("d" :> IntVal(4)))) >> )
              => ValOf(heap', merged') =
                   Tree(("a" :> IntVal(1)) @@
                        ("b" :> Tree(("c" :> IntVal(3)) @@ ("d" :> IntVal(4)))))
      ]_vars

\* the worked example has been merged: a key of base alone, a key of
\* override alone, and a key holding a mapping in both
C6_Witness ==
    /\ MergeDone
    /\ ~raised
    /\ ValOf(heap, arg_a) =
         Tree(("a" :> IntVal(1)) @@ ("b" :> Tree("c" :> IntVal(2))))
    /\ ValOf(heap, arg_b) =
         Tree("b" :> Tree(("c" :> IntVal(3)) @@ ("d" :> IntVal(4))))

(***************************************************************************)
(* C7: for a key of both trees whose two values are not both mappings,     *)
(* deep_merge takes override's value verbatim, without a type check: a     *)
(* scalar replaces a mapping (merge({a:{x:1}}, {a:5}) = {a:5}), a mapping  *)
(* replaces a scalar, and a sequence replaces a sequence wholesale.        *)
(***************************************************************************)
C7_OverrideVerbatim ==
    [][ ( CallDeepMerge /\ IsDict(arg_a) /\ IsDict(arg_b) )
        => /\ ~raised'
           /\ OverrideWins(ValOf(heap', merged'),
                           ValOf(heap, arg_a), ValOf(heap, arg_b))
           /\ ( <<ValOf(heap, arg_a), ValOf(heap, arg_b)>> =
                  << Tree("a" :> Tree("x" :> IntVal(1))),
                     Tree("a" :> IntVal(5)) >> )
              => ValOf(heap', merged') = Tree("a" :> IntVal(5))
      ]_vars

\* below a mapping of both trees, a scalar has replaced a mapping and a
\* sequence has replaced another sequence
C7_Witness ==
    /\ MergeDone
    /\ ~raised
    /\ LET x == ValOf(heap, arg_a)
           y == ValOf(heap, arg_b)
       IN  /\ x.t = "dict" /\ y.t = "dict"
           /\ DOMAIN x.m = {"a", "b"} /\ DOMAIN y.m = {"a", "b"}
           /\ x.m["a"].t = "dict" /\ y.m["a"].t = "int"
           /\ x.m["b"] = ListVal(<<1>>) /\ y.m["b"] = ListVal(<<2>>)

(***************************************************************************)
(* C8: merge is idempotent: deep_merge(T, T) equals T for every tree T,    *)
(* whether T is passed as one object or as two equal ones.                 *)
(***************************************************************************)
C8_Idempotent ==
    [][ ( /\ CallDeepMerge /\ IsDict(arg_a) /\ IsDict(arg_b)
          /\ ValOf(heap, arg_a) = ValOf(heap, arg_b) )
        => /\ ~raised'
           /\ ValOf(heap', merged') = ValOf(heap, arg_a)
      ]_vars

\* a tree with a sequence below a nested mapping has been merged with an
\* equal tree held by another object
C8_Witness ==
    /\ MergeDone
    /\ IsDict(arg_a) /\ IsDict(arg_b)
    /\ arg_a # arg_b
    /\ ValOf(heap, arg_a) = ValOf(heap, arg_b)
    /\ \E k \in TreeKeys, j \in TreeKeys :
          /\ k \in DOMAIN heap[arg_a.ref]
          /\ IsDict(heap[arg_a.ref][k])
          /\ j \in DOMAIN heap[heap[arg_a.ref][k].ref]
          /\ heap[heap[arg_a.ref][k].ref][j].t = "list"

(***************************************************************************)
(* C9: deep_merge never mutates its arguments: every object that existed   *)
(* before the call (base, override and their nested mappings) is unchanged *)
(* after it, and the returned mapping is a new object, distinct from both. *)
(***************************************************************************)
C9_ArgumentsUnchanged ==
    [][ CallDeepMerge
        => /\ \A r \in 1..Len(heap) : heap'[r] = heap[r]
           /\ ~raised' => ( /\ IsDict(merged')
                            /\ merged'.ref \notin 1..Len(heap) )
      ]_vars

\* both arguments hold a nested mapping under a common key, whose merge was
\* stored in the result
C9_Witness ==
    /\ MergeDone
    /\ ~raised
    /\ IsDict(arg_a) /\ IsDict(arg_b)
    /\ \E k \in TreeKeys :
          /\ k \in DOMAIN heap[arg_a.ref] /\ k \in DOMAIN heap[arg_b.ref]
          /\ IsDict(heap[arg_a.ref][k]) /\ IsDict(heap[arg_b.ref][k])
          /\ DOMAIN heap[heap[arg_b.ref][k].ref] # {}
          /\ heap[merged.ref][k] \notin { heap[arg_a.ref][k], heap[arg_b.ref][k] }

(***************************************************************************)
(* C10: deep_merge is total and treats None as the empty mapping:          *)
(* deep_merge(None, T) = T, deep_merge(T, None) = T, deep_merge(None,      *)
(* None) = {}, and no pair of tree-shaped arguments raises.                *)
(***************************************************************************)
C10_NoneIsEmpty ==
    [][ ( CallDeepMerge /\ IsTreeArg(arg_a) /\ IsTreeArg(arg_b) )
        => /\ ~raised'
           /\ (arg_a = NoneVal /\ IsDict(arg_b))
                 => ValOf(heap', merged') = ValOf(heap, arg_b)
           /\ (IsDict(arg_a) /\ arg_b = NoneVal)
                 => ValOf(heap', merged') = ValOf(heap, arg_a)
           /\ (arg_a = NoneVal /\ arg_b = NoneVal)
                 => ValOf(heap', merged') = EmptyTree
      ]_vars

\* None has been merged with a tree that has a nested mapping
C10_Witness ==
    /\ MergeDone
    /\ ~raised
    /\ arg_a = NoneVal
    /\ IsDict(arg_b)
    /\ \E k \in TreeKeys :
          /\ k \in DOMAIN heap[arg_b.ref]
          /\ IsDict(heap[arg_b.ref][k])
    /\ ValOf(heap, merged) = ValOf(heap, arg_b)

(***************************************************************************)
(* C11: merge is not associative where types diverge at a key: whenever a  *)
(* key holds a mapping in A, a value that is no mapping in B and a mapping *)
(* in C, and A's mapping has a key that C's mapping lacks, the two ways of *)
(* merging A, B and C give different trees, so such trees exist.           *)
(***************************************************************************)
ChainDone == pc = "chain_done"

\* types diverge at key k of the trees x, y, z
DivergeAt(x, y, z, k) ==
    /\ k \in DOMAIN x.m /\ k \in DOMAIN y.m /\ k \in DOMAIN z.m
    /\ x.m[k].t = "dict" /\ y.m[k].t # "dict" /\ z.m[k].t = "dict"
    /\ ~(DOMAIN x.m[k].m \subseteq DOMAIN z.m[k].m)

C11_NotAssociative ==
    ChainDone =>
        LET x == ValOf(heap, arg_a)
            y == ValOf(heap, arg_b)
            z == ValOf(heap, arg_c)
        IN  (\E k \in TreeKeys : DivergeAt(x, y, z, k))
               => ValOf(heap, left) # ValOf(heap, right)

\* A = {a: {a: 5}}, B = {a: 5}, C = {a: {}}: the left chain gives {a: {}},
\* the right chain {a: {a: 5}}
C11_Witness ==
    /\ ChainDone
    /\ ValOf(heap, arg_a) = Tree("a" :> Tree("a" :> IntVal(5)))
    /\ ValOf(heap, arg_b) = Tree("a" :> IntVal(5))
    /\ ValOf(heap, arg_c) = Tree("a" :> EmptyTree)
    /\ ValOf(heap, left) = Tree("a" :> EmptyTree)
    /\ ValOf(heap, right) = Tree("a" :> Tree("a" :> IntVal(5)))

(***************************************************************************)
(* Vocabulary of the kubeconfig properties.                                *)
(***************************************************************************)
Rendered == render_args # <<>>

\* the document read back from the text of _render
ExecDoc == ParseDocument(kubeconfig)

IsList(v, n) == v.t = "list" /\ Len(v.s) = n

Generated == gen_kubeconfig # <<>>

\* the document read back from the text of the generator
GenDoc == JsonLoads(gen_kubeconfig)

(***************************************************************************)
(* C14 as stated: in every document of _generate_kubeconfig_string the     *)
(* context name, the cluster name and the user name are all the same       *)
(* identifier gke_{cluster_name}.                                          *)
(***************************************************************************)
C14_AllNamesGkePrefixed ==
    Generated =>
        LET d == GenDoc
            n == Str("gke_" \o out_name.v)
        IN  /\ d.m["contexts"].s[1].m["name"] = n
            /\ d.m["clusters"].s[1].m["name"] = n
            /\ d.m["users"].s[1].m["name"] = n

(***************************************************************************)
(* C14 amended: in every document of _generate_kubeconfig_string the       *)
(* context name and current-context are gke_{cluster_name}, the cluster    *)
(* entry is named by the bare cluster name and the user entry is named     *)
(* "admin"; the context refers to the cluster and the user by exactly      *)
(* those two names.                                                        *)
(***************************************************************************)
C14_GeneratorNames ==
    Generated =>
        LET d == GenDoc
        IN  /\ IsList(d.m["contexts"], 1)
            /\ IsList(d.m["clusters"], 1)
            /\ IsList(d.m["users"], 1)
            /\ d.m["current-context"] = Str("gke_" \o out_name.v)
            /\ d.m["contexts"].s[1].m["name"] = Str("gke_" \o out_name.v)
            /\ d.m["clusters"].s[1].m["name"] = Str(out_name.v)
            /\ d.m["users"].s[1].m["name"] = Str("admin")
            /\ d.m["contexts"].s[1].m["context"].m["cluster"]
                  = d.m["clusters"].s[1].m["name"]
            /\ d.m["contexts"].s[1].m["context"].m["user"]
                  = d.m["users"].s[1].m["name"]

C14_Witness ==
    /\ Generated
    /\ out_name.v = "c1"
    /\ GenDoc.m["current-context"] = Str("gke_c1")
    /\ GenDoc.m["clusters"].s[1].m["name"] = Str("c1")

(***************************************************************************)
(* C15: the repository provides a static-auth kubeconfig renderer exported *)
(* as kubeconfig_gcp_user from the kubeconfig module (whose document has   *)
(* the server and CA data and a user without exec plugin): the name is     *)
(* bound in the module, so importing it into the components package        *)
(* succeeds.                                                               *)
(***************************************************************************)
C15_StaticRendererExported ==
    imported # "no" =>
        /\ imported = "ok"
        /\ "kubeconfig_gcp_user" \in KubeconfigModuleNames

TopLevelKeys ==
    { "apiVersion", "kind", "current-context", "contexts", "clusters", "users" }

\* the keys of the cluster of the single cluster entry of a document
ClusterKeys(d) == DOMAIN d.m["clusters"].s[1].m["cluster"].m

\* the keys of the exec descriptor of the single user entry of a document
ExecKeys(d) == DOMAIN d.m["users"].s[1].m["user"].m["exec"].m

FullShape(d) ==
    /\ DOMAIN d.m = TopLevelKeys
    /\ {"server", "certificate-authority-data"} \subseteq ClusterKeys(d)
    /\ ExecKeys(d) = { "apiVersion", "command", "installHint",
                       "provideClusterInfo", "interactiveMode" }

(***************************************************************************)
(* C16 as stated: every kubeconfig document the repository renders, by     *)
(* kubeconfig_gke_exec or by _generate_kubeconfig_string, has the six      *)
(* top-level keys, a cluster with both server and                          *)
(* certificate-authority-data, and a user.exec with exactly the keys       *)
(* apiVersion, command, installHint, provideClusterInfo, interactiveMode.  *)
(***************************************************************************)
C16_EveryDocumentFullShape ==
    /\ Rendered => FullShape(ExecDoc)
    /\ Generated => FullShape(GenDoc)

(***************************************************************************)
(* C16 amended: every document of kubeconfig_gke_exec has the six          *)
(* top-level keys, a cluster with both server and                          *)
(* certificate-authority-data and a user.exec with exactly the five keys;  *)
(* every document of _generate_kubeconfig_string has the six top-level     *)
(* keys, a cluster with server only and a user.exec with exactly           *)
(* apiVersion, command, installHint and provideClusterInfo.                *)
(***************************************************************************)
C16_DocumentShapes ==
    /\ Rendered => FullShape(ExecDoc)
    /\ Generated =>
          /\ DOMAIN GenDoc.m = TopLevelKeys
          /\ ClusterKeys(GenDoc) = {"server"}
          /\ ExecKeys(GenDoc) = { "apiVersion", "command", "installHint",
                                  "provideClusterInfo" }

C16_Witness ==
    /\ Rendered /\ Generated
    /\ "interactiveMode" \in ExecKeys(ExecDoc)
    /\ "interactiveMode" \notin ExecKeys(GenDoc)

AllResolved == out_name.known /\ out_endpoint.known /\ out_ca.known

\* _render has been called at most once, and then with the three resolved
\* values; the generator has written its document from resolved values only
BarrierSafe ==
    /\ Len(render_args) <= 1
    /\ Rendered =>
          /\ AllResolved
          /\ render_args[1] = <<out_name.v, out_endpoint.v, out_ca.v>>
    /\ Generated =>
          /\ out_name.known /\ out_cpcfg.known
          /\ out_cpcfg.v = NoneVal => out_endpoint.known

(***************************************************************************)
(* C17: whatever the order in which cluster name, endpoint and CA          *)
(* certificate resolve, _render is invoked only after all three have       *)
(* resolved, with those three values, never with a partially resolved set  *)
(* and never more than once; once all three have resolved it is invoked,   *)
(* and while one input stays unresolved it is not.                         *)
(***************************************************************************)
C17_JoinBarrier == []BarrierSafe /\ (AllResolved ~> Rendered)

\* the name resolved last, after endpoint and CA, and _render ran
C17_Witness ==
    /\ Rendered /\ AllResolved
    /\ render_args = << <<"gke-cluster", "10.0.0.2", "LS0tLS1CRUdJTg==">> >>

\* two of the three inputs are known and _render has not run
C17_WitnessWaiting ==
    /\ out_endpoint.known /\ out_ca.known /\ ~out_name.known /\ ~Rendered

\* the values mapping of an app file as a tree; none is the empty mapping
HelmValues(file) ==
    IF "helm" \in DOMAIN file.m /\ "values" \in DOMAIN file.m["helm"].m
       /\ file.m["helm"].m["values"].t = "dict"
    THEN file.m["helm"].m["values"]
    ELSE EmptyTree

(***************************************************************************)
(* C18: in the app loop of the otel-collector program, whatever app files  *)
(* are processed and in whatever order, the defaults tree equals the       *)
(* loaded one after every iteration, the Helm values given to an app are   *)
(* deep_merge(initial defaults, the app's helm.values) whatever was        *)
(* processed before it, and every app's own mapping is as it was loaded.   *)
(***************************************************************************)
C18_DefaultsNotShared ==
    pc \in {"otel_loop", "otel_done", "otel_raised"} =>
        /\ ValOf(heap, defaults) = defaults0
        /\ \A i \in 1..Len(apps) :
              /\ ValOf(heap, apps[i].app) = apps[i].file
              /\ apps[i].deployed =>
                    /\ IsMergeOf(apps[i].values, defaults0, HelmValues(apps[i].file))
                    /\ OverrideWins(apps[i].values, defaults0, HelmValues(apps[i].file))

\* a first app replaced a nested default by a number, and the second app,
\* merging an empty mapping into it, still got the nested default
C18_Witness ==
    /\ Len(apps) = 2
    /\ defaults0 = Tree(("a" :> Tree("a" :> IntVal(5))) @@ ("b" :> ListVal(<<1>>)))
    /\ apps[1].deployed /\ apps[2].deployed
    /\ HelmValues(apps[1].file) = Tree("a" :> IntVal(5))
    /\ apps[1].values = Tree(("a" :> IntVal(5)) @@ ("b" :> ListVal(<<1>>)))
    /\ HelmValues(apps[2].file) = Tree("a" :> EmptyTree)
    /\ apps[2].values = defaults0

NodePoolDeclared == \E i \in 1..Len(declared) : declared[i].type = "NodePool"

(***************************************************************************)
(* C19: in GKECluster.__init__, for every argument set, the agent NodePool *)
(* is declared exactly when enable_autopilot is false, every attribute     *)
(* read while registering outputs has been assigned earlier in the         *)
(* construction, and the construction completes register_outputs without   *)
(* raising.                                                                *)
(***************************************************************************)
C19_ConstructionCompletes ==
    /\ pc \in {"gke_secrets", "gke_register", "gke_done", "gke_raised"} =>
          (NodePoolDeclared <=> ~EnableAutopilot(gke_args))
    /\ pc = "gke_register" => RegisterReads \subseteq attrs
    /\ pc # "gke_raised"

\* the tree of the argument dct: None stands for the empty mapping
TlsInput == IF dct = NoneVal THEN EmptyTree ELSE ValOf(heap, dct)

(***************************************************************************)
(* C20: for every parsed values dict (None, a dict without certificate, a  *)
(* dict whose certificate key is present) and every boolean enabled,       *)
(* _ensure_tls does not raise and returns a dict whose                     *)
(* certificate.enableTLS is enabled, whose certificate has no secretName   *)
(* when enabled is false, and which keeps every other top-level key of the *)
(* input.                                                                  *)
(***************************************************************************)
C20_EnsureTls ==
    [][CallEnsureTls =>
          /\ ~raised'
          /\ LET out == ValOf(heap', tls_out')
             IN  /\ out.t = "dict"
                 /\ "certificate" \in DOMAIN out.m
                 /\ out.m["certificate"].t = "dict"
                 /\ "enableTLS" \in DOMAIN out.m["certificate"].m
                 /\ out.m["certificate"].m["enableTLS"] = Bool(enabled)
                 /\ ~enabled => "secretName" \notin DOMAIN out.m["certificate"].m
                 /\ \A k \in (DOMAIN TlsInput.m) \ {"certificate"} :
                       k \in DOMAIN out.m /\ out.m[k] = TlsInput.m[k]
    ]_vars

\* the program has ended, with or without an exception
WsEnded == pc \in {"ws_raised", "ws_done"}

\* the resource named n has been declared
WsDeclares(n) == \E i \in 1..Len(ws_declared) : ws_declared[i].name = n

\* the resources the declared resource named n waits for
WsDepsOf(n) ==
    UNION { ws_declared[i].deps : i \in { j \in 1..Len(ws_declared) :
                                            ws_declared[j].name = n } }

(***************************************************************************)
(* C21: WarpstreamCluster declares a dependency graph in which the Helm    *)
(* chart waits for the namespace, the Kubernetes service account and, when *)
(* a TLS secret id is configured, the TLS secret, and the Kubernetes       *)
(* service account waits for the workload-identity IAM member, so that     *)
(* none is created before what it waits for; this holds when a GSA email   *)
(* is supplied and when a new GSA is created.                              *)
(***************************************************************************)
C21_DependencyOrder ==
    WsEnded =>
        /\ WsDeclares("chart")
        /\ {"ns", "ksa"} \subseteq WsDepsOf("chart")
        /\ ws_args.gcp_tls_cert_secret_id # "absent" => "tls" \in WsDepsOf("chart")
        /\ WsDeclares("ksa")
        /\ "wi_member" \in WsDepsOf("ksa")

====
